---- MODULE Spec2Model ----
(***************************************************************************)
(* A model of the Gmail IMAP fetcher (src/src/client.rs, with the older    *)
(* single-file draft src/src/main.rs holding the same algorithms).         *)
(*                                                                         *)
(*   RangeSpec    the launch loop's range arithmetic on u32                *)
(*                (fetch_emails_concurrently, lines 130-131)               *)
(*   DecoderSpec  process_batch_async, byte by byte, fed by reads of any   *)
(*                chunk size                                               *)
(*   SessionSpec  one connection: authenticate, select_inbox, the FETCH    *)
(*                command, the decoder and LOGOUT (fetch_email_batch), or  *)
(*                the count query (get_email_count)                        *)
(*   Spec         fetch_emails_concurrently: the spawned Worker tasks, the *)
(*                semaphore and the collection of the join handles         *)
(*   FairSpec     Spec with the fairness of the tokio scheduler            *)
(***************************************************************************)
EXTENDS Integers, Sequences, FiniteSets, TLC

VARIABLES
    loop,       \* RangeSpec: the launch loop's iterator and what it generated
    script,     \* what the server answers the FETCH command with, item by item
    stream,     \* the bytes the server sends on the connection, in full
    pos,        \* how many of them the client has read
    dec,        \* process_batch_async's locals and its return value
    files,      \* the destination directory: file name -> content
    writes,     \* the file writes issued so far, in order
    failAt,     \* the ordinal of the file write the file system rejects (0: none)
    sess,       \* SessionSpec: the connection's position, commands sent, result
    orch,       \* Spec: fetch_emails_concurrently's locals
    task,       \* Spec: the spawned Worker tasks
    permits     \* Spec: the semaphore's available permits

vars == <<loop, script, stream, pos, dec, files, writes, failAt, sess, orch, task, permits>>

decoderVars == <<script, stream, pos, dec, files, writes, failAt>>
orchVars == <<orch, task, permits>>

None == "None"

(***************************************************************************)
(* u32 arithmetic.  TLC's integers are 32-bit signed, so a u32 is kept as  *)
(* two 16-bit limbs <<hi, lo>>; additions wrap modulo 2^32 as the release  *)
(* build's do, and report the overflow the debug build panics on.          *)
(***************************************************************************)
Limb == 256 * 256

U32Of(n) == <<n \div Limb, n % Limb>>

U32Le(a, b) == a[1] < b[1] \/ (a[1] = b[1] /\ a[2] <= b[2])

U32Min(a, b) == IF U32Le(a, b) THEN a ELSE b

U32Max == <<Limb - 1, Limb - 1>>

\* a + n for a small n >= 0, wrapped
U32Add(a, n) ==
    LET lo == a[2] + n
        hi == a[1] + (lo \div Limb)
    IN  <<hi % Limb, lo % Limb>>

U32AddOverflows(a, n) == a[1] + ((a[2] + n) \div Limb) >= Limb

\* a - n for a small n >= 0, wrapped
U32Sub(a, n) ==
    IF a[2] >= n THEN <<a[1], a[2] - n>>
    ELSE <<(a[1] + Limb - 1) % Limb, a[2] + Limb - n>>

U32SubOverflows(a, n) == a[1] = 0 /\ a[2] < n

\* floor(a / n) and a mod n for a small n >= 2 (the quotient fits an integer)
U32Div(a, n) == (a[1] \div n) * Limb + (((a[1] % n) * Limb + a[2]) \div n)

U32Mod(a, n) == ((a[1] % n) * Limb + a[2]) % n

\* b - a when a <= b <= a + n, and -1 otherwise
U32Gap(a, b, n) ==
    IF \E d \in 0..n : ~U32AddOverflows(a, d) /\ U32Add(a, d) = b
    THEN CHOOSE d \in 0..n : ~U32AddOverflows(a, d) /\ U32Add(a, d) = b
    ELSE -1

(***************************************************************************)
(* The launch loop: for start in (1..=email_count).step_by(batch_size)     *)
(***************************************************************************)
batch_size == 10

\* (1..=email_count).step_by(batch_size): the value after `start`, or None.
\* The iterator steps with a checked addition and ends on overflow.
StepBy(start, email_count) ==
    IF ~U32AddOverflows(start, batch_size)
       /\ U32Le(U32Add(start, batch_size), email_count)
    THEN U32Add(start, batch_size)
    ELSE None

\* start + batch_size - 1 overflows u32
RangeEndOverflows(start) ==
    \/ U32AddOverflows(start, batch_size)
    \/ U32SubOverflows(U32Add(start, batch_size), 1)

\* let end = std::cmp::min(start + batch_size - 1, email_count), wrapped
RangeEnd(start, email_count) ==
    U32Min(U32Sub(U32Add(start, batch_size), 1), email_count)

(***************************************************************************)
(* Bytes and strings.  A byte is a one-character string, a buffer or a     *)
(* line a sequence of them.  B_FF stands for a byte that is not valid      *)
(* UTF-8 and U_FFFD for the character from_utf8_lossy puts in its place.   *)
(***************************************************************************)
CR == "\r"
LF == "\n"
B_FF == "0xFF"
U_FFFD == "U+FFFD"

SetMin(S) == CHOOSE x \in S : \A y \in S : x <= y
SetMax(S) == CHOOSE x \in S : \A y \in S : x >= y

\* String::from_utf8_lossy(&response_buffer)
FromUtf8Lossy(buf) == [i \in 1..Len(buf) |-> IF buf[i] = B_FF THEN U_FFFD ELSE buf[i]]

\* char::is_whitespace, on the characters of the model
IsWhitespace(c) == c \in {" ", "\t", "\n", "\r", "\f"}

\* str::trim
Trim(s) ==
    LET keep == {i \in 1..Len(s) : ~IsWhitespace(s[i])}
    IN  IF keep = {} THEN <<>>
        ELSE SubSeq(s, SetMin(keep), CHOOSE i \in keep : \A j \in keep : j <= i)

\* str::starts_with
StartsWith(s, p) == Len(s) >= Len(p) /\ SubSeq(s, 1, Len(p)) = p

\* str::find: the 0-based index of the first occurrence, -1 for None
Find(s, p) ==
    LET at == {i \in 0..(Len(s) - Len(p)) : SubSeq(s, i + 1, i + Len(p)) = p}
    IN  IF at = {} THEN -1 ELSE SetMin(at)

\* str::contains
Contains(s, p) == Find(s, p) # -1

\* the response buffer ends with CR LF
EndsWithCRLF(buf) ==
    Len(buf) >= 2 /\ buf[Len(buf) - 1] = CR /\ buf[Len(buf)] = LF

DigitChars == <<"0", "1", "2", "3", "4", "5", "6", "7", "8", "9">>

IsDigit(c) == \E i \in 1..10 : DigitChars[i] = c

DigitVal(c) == (CHOOSE i \in 1..10 : DigitChars[i] = c) - 1

RECURSIVE DigitsVal(_)
DigitsVal(s) ==
    IF s = <<>> THEN 0 ELSE 10 * DigitsVal(SubSeq(s, 1, Len(s) - 1)) + DigitVal(s[Len(s)])

\* str::parse::<u32> and ::<usize>: an optional '+', then one or more ASCII
\* digits; -1 for Err.  A number of ten digits or more is beyond TLC's
\* integers and no stream of the model holds one.
ParseUnsigned(s) ==
    LET digits == IF s # <<>> /\ s[1] = "+" THEN Tail(s) ELSE s
    IN  IF digits = <<>> \/ Len(digits) > 9 \/ \E i \in 1..Len(digits) : ~IsDigit(digits[i])
        THEN -1
        ELSE DigitsVal(digits)

\* format!("{}", n) for n >= 0
RECURSIVE Decimal(_)
Decimal(n) ==
    IF n < 10 THEN <<DigitChars[n + 1]>>
    ELSE Decimal(n \div 10) \o <<DigitChars[(n % 10) + 1]>>

\* format!("{:05}", n): zero-padded to at least five digits
Pad5(n) ==
    LET d == Decimal(n)
    IN  IF Len(d) >= 5 THEN d ELSE [i \in 1..(5 - Len(d)) |-> "0"] \o d

\* format!("{}/email_{:05}.eml", dir_path, current_email_id)
FileName(dir_path, id) == <<dir_path, "/email_">> \o Pad5(id) \o <<".eml">>

S_FETCH == <<"F", "E", "T", "C", "H">>
S_SP_FETCH == <<" ", "F", "E", "T", "C", "H">>
S_STAR_SP == <<"*", " ">>
S_LBRACE == <<"{">>
S_RBRACE == <<"}">>
S_A001 == <<"A", "0", "0", "1">>
S_A002 == <<"A", "0", "0", "2">>
S_A003 == <<"A", "0", "0", "3">>
S_OK == <<"O", "K">>
S_BAD == <<"B", "A", "D">>
S_NO == <<"N", "O">>
S_EXISTS == <<"E", "X", "I", "S", "T", "S">>
S_CRLF == <<CR, LF>>

(***************************************************************************)
(* process_batch_async.  A machine state m holds the function's locals     *)
(* (m.dec), the destination directory (m.files) and the writes issued      *)
(* (m.writes).  m.dec.ret is the function's return value and m.dec.exit    *)
(* names the statement that returned ("running" until then).               *)
(***************************************************************************)
dir_path == "/mail"

\* a Result: not yet returned, Ok(v), Err(kind(text)), or a panic
NoRet == [tag |-> "None"]
Ok(v) == [tag |-> "Ok", value |-> v]
Err(kind, text) == [tag |-> "Err", kind |-> kind, text |-> text]
Panicked == [tag |-> "Panic"]

\* lines 343-350
DecoderStart ==
    [ response_buffer |-> <<>>,
      current_email_data |-> <<>>,
      reading_email_body |-> FALSE,
      email_body_size |-> 0,
      body_bytes_read |-> 0,
      current_email_id |-> 0,
      emails_saved |-> 0,
      expecting_closing_paren |-> FALSE,
      ret |-> NoRet,
      exit |-> "running" ]

\* the decoder of a connection that is not decoding
DecoderOff == [DecoderStart EXCEPT !.exit = "off"]

Return(m, exit, ret) == [m EXCEPT !.dec.ret = ret, !.dec.exit = exit]

\* tokio::fs::write fails on the write the file system rejects
WriteFails(m) == failAt = Len(m.writes) + 1

\* mutant: the comparison off by one
BodyComplete_Late(d) == d.body_bytes_read > d.email_body_size

\* if body_bytes_read >= email_body_size
BodyComplete(d) == d.body_bytes_read >= d.email_body_size

\* mutant: the file is opened for appending instead of being replaced
SaveEmail_Append(m) ==
    LET d == m.dec
        filename == FileName(dir_path, d.current_email_id)
        old == IF filename \in DOMAIN m.files THEN m.files[filename] ELSE <<>>
    IN  [ m EXCEPT
            !.files = [f \in (DOMAIN m.files) \cup {filename} |->
                          IF f = filename THEN old \o d.current_email_data ELSE m.files[f]],
            !.writes = Append(@, [name |-> filename, data |-> d.current_email_data]),
            !.dec.emails_saved = @ + 1,
            !.dec.reading_email_body = FALSE,
            !.dec.expecting_closing_paren = TRUE,
            !.dec.current_email_data = <<>> ]


\* mutant: the accumulator is not cleared after the write
SaveEmail_KeepsData(m) ==
    LET d == m.dec
        filename == FileName(dir_path, d.current_email_id)
    IN  IF WriteFails(m)
        THEN Return(m, "file_error", Err("FileError", filename))
        ELSE [ m EXCEPT
                 !.files = [f \in (DOMAIN m.files) \cup {filename} |->
                               IF f = filename THEN d.current_email_data ELSE m.files[f]],
                 !.writes = Append(@, [name |-> filename, data |-> d.current_email_data]),
                 !.dec.emails_saved = @ + 1,
                 !.dec.reading_email_body = FALSE,
                 !.dec.expecting_closing_paren = TRUE ]

\* lines 365-376: save the email and leave the body
SaveEmail(m) ==
    LET d == m.dec
        filename == FileName(dir_path, d.current_email_id)
    IN  IF WriteFails(m)
        THEN Return(m, "file_error", Err("FileError", filename))
        ELSE [ m EXCEPT
                 !.files = [f \in (DOMAIN m.files) \cup {filename} |->
                               IF f = filename THEN d.current_email_data ELSE m.files[f]],
                 !.writes = Append(@, [name |-> filename, data |-> d.current_email_data]),
                 !.dec.emails_saved = @ + 1,
                 !.dec.reading_email_body = FALSE,
                 !.dec.expecting_closing_paren = TRUE,
                 !.dec.current_email_data = <<>> ]

\* mutant: a closing parenthesis ends the body
BodyByte_ParenEnds(m, byte) ==
    LET m1 == [ m EXCEPT !.dec.current_email_data = Append(@, byte),
                         !.dec.body_bytes_read = @ + 1 ]
    IN  IF byte = ")" \/ BodyComplete(m1.dec) THEN SaveEmail(m1) ELSE m1


\* lines 360-377: a byte while reading_email_body
BodyByte(m, byte) ==
    LET m1 == [ m EXCEPT !.dec.current_email_data = Append(@, byte),
                         !.dec.body_bytes_read = @ + 1 ]
    IN  IF BodyComplete(m1.dec) THEN SaveEmail(m1) ELSE m1

\* mutant: any byte ends the wait for the closing parenthesis
ParenByte_Any(m, byte) == [m EXCEPT !.dec.expecting_closing_paren = FALSE]

\* lines 378-381: a byte while expecting_closing_paren
ParenByte(m, byte) ==
    IF byte = ")" THEN [m EXCEPT !.dec.expecting_closing_paren = FALSE] ELSE m

\* lines 393-402: extract the email id.  The slice panics when its start
\* lies behind its end.
ExtractId(m, line_str) ==
    LET fetch_start == Find(line_str, S_STAR_SP)
        fetch_end == Find(line_str, S_SP_FETCH)
    IN  IF fetch_start = -1 \/ fetch_end = -1 THEN m
        ELSE IF fetch_start + 2 > fetch_end THEN Return(m, "panic", Panicked)
        ELSE LET id == ParseUnsigned(SubSeq(line_str, fetch_start + 3, fetch_end))
             IN  IF id = -1 THEN m ELSE [m EXCEPT !.dec.current_email_id = id]

\* lines 404-416: extract the body size and enter the body
ExtractSize(m, line_str) ==
    LET size_start == Find(line_str, S_LBRACE)
        size_end == Find(line_str, S_RBRACE)
    IN  IF size_start = -1 \/ size_end = -1 THEN m
        ELSE IF size_start + 1 > size_end THEN Return(m, "panic", Panicked)
        ELSE LET size == ParseUnsigned(SubSeq(line_str, size_start + 2, size_end))
             IN  IF size = -1 THEN m
                 ELSE [ m EXCEPT !.dec.email_body_size = size,
                                 !.dec.body_bytes_read = 0,
                                 !.dec.reading_email_body = TRUE,
                                 !.dec.current_email_data = <<>> ]

\* line 392
IsFetchLine(line_str) == Contains(line_str, S_FETCH) /\ Contains(line_str, S_LBRACE)

\* mutant: a tagged line without OK is a failure, whatever it contains
TaggedLine_Strict(m, line_str) ==
    IF Contains(line_str, S_OK)
    THEN Return(m, "completed", Ok(m.dec.emails_saved))
    ELSE Return(m, "failed", Err("ImapError", line_str))

\* lines 417-426: a line that starts with the FETCH command's tag
TaggedLine(m, line_str) ==
    IF Contains(line_str, S_OK)
    THEN Return(m, "completed", Ok(m.dec.emails_saved))
    ELSE IF Contains(line_str, S_BAD) \/ Contains(line_str, S_NO)
    THEN Return(m, "failed", Err("ImapError", line_str))
    ELSE m

\* lines 389-428: a complete line in the response buffer
Line(m) ==
    LET line_str == Trim(FromUtf8Lossy(m.dec.response_buffer))
        m1 == IF IsFetchLine(line_str)
              THEN LET mi == ExtractId(m, line_str)
                   IN  IF mi.dec.exit # "running" THEN mi ELSE ExtractSize(mi, line_str)
              ELSE IF StartsWith(line_str, S_A003) THEN TaggedLine(m, line_str)
              ELSE m
    IN  IF m1.dec.exit # "running" THEN m1 ELSE [m1 EXCEPT !.dec.response_buffer = <<>>]

\* lines 382-430: a byte while reading a line
LineByte(m, byte) ==
    LET m1 == [m EXCEPT !.dec.response_buffer = Append(@, byte)]
    IN  IF EndsWithCRLF(m1.dec.response_buffer) THEN Line(m1) ELSE m1

\* lines 358-430: the body of `for i in 0..n`
DecodeByte(m, byte) ==
    IF m.dec.reading_email_body THEN BodyByte(m, byte)
    ELSE IF m.dec.expecting_closing_paren THEN ParenByte(m, byte)
    ELSE LineByte(m, byte)

\* lines 357-431: for i in 0..n, left by a return
RECURSIVE ForEachByte(_, _)
ForEachByte(m, chunk) ==
    IF chunk = <<>> \/ m.dec.exit # "running" THEN m
    ELSE ForEachByte(DecodeByte(m, Head(chunk)), Tail(chunk))

\* mutant: the line buffer declared inside the read loop, fresh for every read
ProcessChunk_FreshBuffer(m, chunk) ==
    ForEachByte([m EXCEPT !.dec.response_buffer = <<>>], chunk)

\* line 356: Ok(n) => the bytes of one read
ProcessChunk(m, chunk) == ForEachByte(m, chunk)

Machine == [dec |-> dec, files |-> files, writes |-> writes]

\* the buffer of one read (let mut buffer = [0; 4096])
BufferSize == 4096

\* the states of the variables a specification does not use
DecoderIdle ==
    /\ script = <<>> /\ stream = <<>> /\ pos = 0 /\ dec = DecoderOff
    /\ files = <<>> /\ writes = <<>> /\ failAt = 0

SessIdle == sess = [pc |-> "off"]

OrchIdle == orch = [pc |-> "off"] /\ task = <<>> /\ permits = 0

LoopIdle == loop = [pc |-> "off"]


(***************************************************************************)
(* What the server sends in answer to FETCH: a sequence of items, each a   *)
(* message (a FETCH line announcing an id and a literal size, the literal, *)
(* the closing parenthesis and CRLF) or a plain line.                      *)
(***************************************************************************)
Msg(id, body) == [kind |-> "msg", id |-> id, size |-> Len(body), body |-> body]
TextLine(text) == [kind |-> "line", text |-> text]

\* "* <id> FETCH (BODY[] {<size>}" CRLF <body> ")" CRLF
RenderMsg(it) ==
    S_STAR_SP \o Decimal(it.id) \o <<" ", "F", "E", "T", "C", "H", " ", "(", "B", "O", "D", "Y", "[", "]", " ", "{">> \o Decimal(it.size)
        \o S_RBRACE \o S_CRLF \o it.body \o <<")">> \o S_CRLF

RenderItem(it) == IF it.kind = "msg" THEN RenderMsg(it) ELSE it.text \o S_CRLF

RECURSIVE Render(_)
Render(items) == IF items = <<>> THEN <<>> ELSE RenderItem(Head(items)) \o Render(Tail(items))

L_OK == TextLine(<<"A", "0", "0", "3", " ", "O", "K">>)
L_NO == TextLine(<<"A", "0", "0", "3", " ", "N", "O">>)
L_BAD == TextLine(<<"A", "0", "0", "3", " ", "B", "A", "D">>)
L_NO_LOOKUP == TextLine(<<"A", "0", "0", "3", " ", "N", "O", " ", "L", "O", "O", "K", "U", "P">>)
L_BAD_FETCH == TextLine(<<"A", "0", "0", "3", " ", "B", "A", "D", " ", "F", "E", "T", "C", "H", " ", "{">>)
L_UNTAGGED == TextLine(<<"*", " ", "x">>)

\* the lines that start with the FETCH command's tag
TaggedLines == {L_OK, L_NO, L_BAD, L_NO_LOOKUP, L_BAD_FETCH}

MaxBodyLen == 2
MaxMsgs == 2
MaxItems == 2
MaxChunk == 2
MaxFailAt == 1
FirstId == 7

BodyBytes == {")", CR, LF, "x"}

RECURSIVE SeqsUpTo(_, _)
SeqsUpTo(S, n) ==
    IF n = 0 THEN {<<>>}
    ELSE LET shorter == SeqsUpTo(S, n - 1)
         IN  shorter \cup {Append(q, x) : q \in {r \in shorter : Len(r) = n - 1}, x \in S}

\* every body of up to MaxBodyLen bytes, the empty one included
Bodies == SeqsUpTo(BodyBytes, MaxBodyLen)

\* bodies that look like protocol text
FixedBodies == {<<"h", "i">>, <<")", CR, LF>> \o L_OK.text \o S_CRLF, <<B_FF>>}

\* one message with any body, then the completion line
SingleMsgScripts == {<<Msg(FirstId, b), L_OK>> : b \in Bodies}

\* k messages with consecutive ids, then the completion line
MultiMsgScripts ==
    UNION {{[i \in 1..(k + 1) |-> IF i <= k THEN Msg(FirstId + i - 1, bs[i]) ELSE L_OK] :
              bs \in [1..k -> FixedBodies]} : k \in 1..MaxMsgs}

\* up to MaxItems messages and untagged lines, then a tagged line or nothing
Items == {L_UNTAGGED, Msg(FirstId, <<"h", "i">>), Msg(123456, <<>>)}

ItemScripts ==
    {pre \o end : pre \in SeqsUpTo(Items, MaxItems),
                  end \in {<<>>} \cup {<<l>> : l \in TaggedLines}}

\* FETCH lines with a brace whose id, or whose size, is not a number
L_FETCH_NO_ID == TextLine(<<"*", " ", "x", " ", "F", "E", "T", "C", "H", " ", "(", "B", "O", "D", "Y", "[", "]", " ", "{", "2", "}">>)
L_FETCH_NO_SIZE == TextLine(<<"*", " ", "9", " ", "F", "E", "T", "C", "H", " ", "(", "B", "O", "D", "Y", "[", "]", " ", "{", "x", "}">>)
L_BODY == TextLine(<<"y", "o", ")">>)

\* a message, then a FETCH line one of whose extractions fails
MalformedScripts ==
    { <<Msg(FirstId, <<"h", "i">>), L_FETCH_NO_ID, L_BODY, L_OK>>,
      <<Msg(FirstId, <<"h", "i">>), L_FETCH_NO_SIZE, L_OK>> }

\* a message whose body is itself a FETCH line with its literal
NestedScripts == {<<Msg(FirstId, RenderMsg(Msg(9, <<"x">>))), L_OK>>}

\* a line with the tag and no marker, and a FETCH line without a literal
L_TAG_ONLY == TextLine(<<"A", "0", "0", "3", " ", "x">>)
L_FETCH_FLAGS == TextLine(<<"*", " ", "7", " ", "F", "E", "T", "C", "H", " ", "(", "F", "L", "A", "G", "S", ")">>)

\* a message, then lines the decoder has no use for
PlainScripts == {<<Msg(FirstId, <<"h", "i">>), L_TAG_ONLY, L_FETCH_FLAGS, L_OK>>}

DecoderScripts ==
    SingleMsgScripts \cup MultiMsgScripts \cup ItemScripts \cup MalformedScripts
        \cup NestedScripts \cup PlainScripts

(***************************************************************************)
(* DecoderSpec: process_batch_async on a connection the server has written *)
(* its whole answer to and then closed.                                    *)
(***************************************************************************)
DecoderInit ==
    /\ script \in DecoderScripts
    /\ stream = Render(script)
    /\ pos = 0
    /\ dec = DecoderStart
    /\ files = <<>>
    /\ writes = <<>>
    /\ failAt \in 0..MaxFailAt
    /\ LoopIdle /\ SessIdle /\ OrchIdle

Decoding == dec.exit = "running"

\* the sizes a read may return with `avail` bytes to come: anything up to
\* the buffer's size; the model takes 1..MaxChunk and all there is
ReadSizes(avail) ==
    {n \in 1..avail : n <= BufferSize /\ (n <= MaxChunk \/ n = avail \/ n = BufferSize)}

\* lines 354-432: tls_stream.read returned Ok(n), n > 0
Read ==
    /\ Decoding
    /\ \E n \in ReadSizes(Len(stream) - pos) :
         LET m == ProcessChunk(Machine, SubSeq(stream, pos + 1, pos + n))
         IN  /\ dec' = m.dec
             /\ files' = m.files
             /\ writes' = m.writes
             /\ pos' = pos + n
    /\ UNCHANGED <<loop, script, stream, failAt, sess, orchVars>>

\* lines 355, 437: Ok(0) => break, then Ok(emails_saved)
ReadEof ==
    /\ Decoding
    /\ pos = Len(stream)
    /\ dec' = Return(Machine, "eof", Ok(dec.emails_saved)).dec
    /\ UNCHANGED <<loop, script, stream, pos, files, writes, failAt, sess, orchVars>>

\* line 433: Err(e) => return Err(ConnectionError)
ReadErr ==
    /\ Decoding
    /\ dec' = Return(Machine, "read_error", Err("ConnectionError", <<>>)).dec
    /\ UNCHANGED <<loop, script, stream, pos, files, writes, failAt, sess, orchVars>>

DecoderNext == Read \/ ReadEof \/ ReadErr

DecoderSpec == DecoderInit /\ [][DecoderNext]_vars

(***************************************************************************)
(* The handshake: authenticate, select_inbox and get_email_count's own     *)
(* SELECT loop.  Each reads the connection one byte at a time              *)
(* (read_exact) into a buffer it clears after every CRLF.                  *)
(***************************************************************************)
\* mutant: any line that starts with the tag counts as success
TaggedOutcome_AlwaysOk(response) == "ok"

\* lines 288-294, 328-332, 96-100: the line that starts with the command's tag
TaggedOutcome(response) == IF Contains(response, S_OK) THEN "ok" ELSE "rejected"

\* str::split_whitespace
RECURSIVE SplitWhitespace(_)
SplitWhitespace(s) ==
    LET from == {i \in 1..Len(s) : ~IsWhitespace(s[i])}
    IN  IF from = {} THEN <<>>
        ELSE LET a == SetMin(from)
                 stop == {i \in a..Len(s) : IsWhitespace(s[i])}
                 b == IF stop = {} THEN Len(s) + 1 ELSE SetMin(stop)
             IN  <<SubSeq(s, a, b - 1)>> \o SplitWhitespace(SubSeq(s, b, Len(s)))

\* lines 86-93: the count of a line that contains EXISTS, else the count so far
ExistsCount(response, email_count) ==
    IF ~Contains(response, S_EXISTS) THEN email_count
    ELSE LET parts == SplitWhitespace(response)
         IN  IF Len(parts) >= 2 /\ ParseUnsigned(parts[2]) # -1
             THEN ParseUnsigned(parts[2]) ELSE email_count

\* lines 273-298, 313-336, 71-104: read bytes until a line starts with `tag`.
\* `counting` is get_email_count's loop, which also looks for EXISTS.  The
\* result is the outcome ("ok", "rejected", or "eof" when the bytes run out),
\* the number of bytes read and the count.
RECURSIVE ScanLoop(_, _, _, _, _, _)
ScanLoop(response_buffer, rest, tag, counting, email_count, consumed) ==
    IF rest = <<>>
    THEN [outcome |-> "eof", consumed |-> consumed, email_count |-> email_count]
    ELSE LET buf == Append(response_buffer, Head(rest))
         IN  IF ~EndsWithCRLF(buf)
             THEN ScanLoop(buf, Tail(rest), tag, counting, email_count, consumed + 1)
             ELSE LET response == FromUtf8Lossy(buf)
                      count == IF counting THEN ExistsCount(response, email_count)
                               ELSE email_count
                  IN  IF StartsWith(response, tag)
                      THEN [outcome |-> TaggedOutcome(response),
                            consumed |-> consumed + 1, email_count |-> count]
                      ELSE ScanLoop(<<>>, Tail(rest), tag, counting, count, consumed + 1)

ScanTagged(bytes, tag, counting) == ScanLoop(<<>>, bytes, tag, counting, 0, 0)

RECURSIVE RenderLines(_)
RenderLines(lines) ==
    IF lines = <<>> THEN <<>> ELSE Head(lines) \o S_CRLF \o RenderLines(Tail(lines))

\* what the server may say: its greeting, and its answers to LOGIN and SELECT
Greetings == {<<>>, RenderLines(<<<<"*", " ", "O", "K">>>>)}

LoginResponses ==
    { <<<<"A", "0", "0", "1", " ", "O", "K">>>>,
      <<<<"*", " ", "x">>, <<"A", "0", "0", "1", " ", "O", "K">>>>,
      <<<<"A", "0", "0", "1", " ", "N", "O">>>>,
      <<<<"*", " ", "O", "K">>, <<"A", "0", "0", "1", " ", "B", "A", "D">>>>,
      <<<<"A", "0", "0", "1", " ", "N", "O">>, <<"A", "0", "0", "1", " ", "O", "K">>>>,
      <<<<"*", " ", "x">>>>,
      <<>> }

SelectResponses ==
    { <<<<"*", " ", "3", " ", "E", "X", "I", "S", "T", "S">>, <<"A", "0", "0", "2", " ", "O", "K">>>>,
      <<<<"*", " ", "2", "5", " ", "E", "X", "I", "S", "T", "S">>, <<"*", " ", "x", " ", "E", "X", "I", "S", "T", "S">>, <<"A", "0", "0", "2", " ", "O", "K">>>>,
      <<<<"A", "0", "0", "2", " ", "O", "K">>>>,
      <<<<"A", "0", "0", "2", " ", "N", "O">>>>,
      <<>> }

\* more answers to get_email_count's SELECT: several EXISTS lines, EXISTS
\* lines without a count, the tagged line itself with EXISTS
CountResponses ==
    { <<<<"*", " ", "3", " ", "E", "X", "I", "S", "T", "S">>, <<"*", " ", "2", "5", " ", "E", "X", "I", "S", "T", "S">>, <<"A", "0", "0", "2", " ", "O", "K">>>>,
      <<<<"*", " ", "+", "4", " ", "E", "X", "I", "S", "T", "S">>, <<"E", "X", "I", "S", "T", "S">>, <<"*", " ", "O", "K", " ", "9", " ", "E", "X", "I", "S", "T", "S">>, <<"A", "0", "0", "2", " ", "O", "K">>>>,
      <<<<"*", " ", "6", " ", "E", "X", "I", "S", "T", "S">>, <<"A", "0", "0", "2", " ", "7", " ", "E", "X", "I", "S", "T", "S", " ", "O", "K">>>>,
      <<<<"*", " ", "6", " ", "E", "X", "I", "S", "T", "S">>, <<"A", "0", "0", "2", " ", "N", "O">>>>,
      <<<<"*", " ", "0", " ", "E", "X", "I", "S", "T", "S">>, <<"*", " ", "2", " ", "R", "E", "C", "E", "N", "T">>, <<"A", "0", "0", "2", " ", "O", "K", " ", "[", "R", "E", "A", "D", "-", "W", "R", "I", "T", "E", "]">>>>,
      <<<<"*", " ", "8", " ", "E", "X", "I", "S", "T", "S">>>> }

\* what the server may answer FETCH with
SessionScripts ==
    { <<Msg(FirstId, <<"h", "i">>), L_OK>>,
      <<Msg(FirstId, <<"h", "i">>), L_NO>>,
      <<L_BAD>>,
      <<L_NO_LOOKUP>>,
      <<L_BAD_FETCH, L_OK>>,
      <<L_UNTAGGED>> }

(***************************************************************************)
(* SessionSpec: one connection, opened by fetch_email_batch ("batch") or   *)
(* by get_email_count ("count").  sess.sent lists the commands written,    *)
(* sess.result is the caller's return value, sess.scan_from is where the   *)
(* last read loop began.  Every awaited operation may fail (io = "err").   *)
(***************************************************************************)
IoOutcomes == {"ok", "err"}

SessionStart(caller) ==
    [ caller |-> caller, pc |-> "connect", sent |-> <<>>, result |-> NoRet,
      scan_from |-> 0, login_from |-> 0, email_count |-> 0, emails_saved |-> 0 ]

SessionInit ==
    /\ sess \in {SessionStart(c) : c \in {"batch", "count"}}
    /\ script = <<>> /\ stream = <<>> /\ pos = 0 /\ dec = DecoderOff
    /\ files = <<>> /\ writes = <<>>
    /\ failAt \in 0..MaxFailAt
    /\ LoopIdle /\ OrchIdle

\* `?`: the caller returns the error
Fail(kind) == [sess EXCEPT !.pc = "done", !.result = Err(kind, <<>>)]

\* lines 193, 54, 224-246: create_tls_connection; the server greets
Connect ==
    /\ sess.pc = "connect"
    /\ \E io \in IoOutcomes \cup {"tls_err"}, greeting \in Greetings :
         IF io = "ok"
         THEN /\ sess' = [sess EXCEPT !.pc = "greeting"]
              /\ stream' = greeting
         ELSE /\ sess' = Fail(IF io = "err" THEN "ConnectionError" ELSE "TlsError")
              /\ UNCHANGED stream
    /\ UNCHANGED <<loop, script, pos, dec, files, writes, failAt, orchVars>>

\* lines 254-258: one read of the greeting, of any size (0 at end of input)
Greeting ==
    /\ sess.pc = "greeting"
    /\ \E io \in IoOutcomes :
         IF io = "ok"
         THEN /\ \E n \in (IF pos = Len(stream) THEN {0} ELSE ReadSizes(Len(stream) - pos)) :
                    pos' = pos + n
              /\ sess' = [sess EXCEPT !.pc = "login_write"]
         ELSE /\ sess' = Fail("ConnectionError")
              /\ UNCHANGED pos
    /\ UNCHANGED <<loop, script, stream, dec, files, writes, failAt, orchVars>>

\* write_all and flush of a command; the server answers with `answer`, and
\* the caller's result becomes `result` (NoRet unless it returns here)
Command(at, name, next, result, answer) ==
    /\ sess.pc = at
    /\ \E io \in IoOutcomes :
         IF io = "ok"
         THEN /\ sess' = [sess EXCEPT !.pc = next, !.sent = Append(@, name),
                                       !.result = result,
                                       !.scan_from = IF name = "LOGOUT" THEN @ ELSE pos,
                                       !.login_from = IF name = "LOGIN" THEN pos ELSE @]
              /\ stream' = stream \o answer
         ELSE /\ sess' = Fail("ConnectionError")
              /\ UNCHANGED stream

\* lines 261-269
LoginWrite ==
    /\ \E lines \in LoginResponses :
         Command("login_write", "LOGIN", "login_read", NoRet, RenderLines(lines))
    /\ UNCHANGED <<loop, script, pos, dec, files, writes, failAt, orchVars>>

\* the read loop of a command: it ends on the tagged line, on a read error
\* or at the end of the input (read_exact fails with UnexpectedEof); while
\* the server neither sends nor closes, it waits
ReadLoop(at, tag, counting, next, rejected) ==
    /\ sess.pc = at
    /\ LET r == ScanTagged(SubSeq(stream, pos + 1, Len(stream)), tag, counting)
       IN  \E io \in IoOutcomes :
             /\ pos' = IF io = "ok" THEN pos + r.consumed ELSE pos
             /\ sess' = IF io = "err" \/ r.outcome = "eof" THEN Fail("ConnectionError")
                        ELSE IF r.outcome = "rejected" THEN Fail(rejected)
                        ELSE [sess EXCEPT !.pc = next, !.email_count = r.email_count]

\* lines 271-298
LoginRead ==
    /\ ReadLoop("login_read", S_A001, FALSE, "select_write", "AuthenticationError")
    /\ UNCHANGED <<loop, script, stream, dec, files, writes, failAt, orchVars>>

\* lines 302-310, 58-66
SelectWrite ==
    /\ \E lines \in SelectResponses \cup (IF sess.caller = "count" THEN CountResponses ELSE {}) :
         Command("select_write", "SELECT", "select_read", NoRet, RenderLines(lines))
    /\ UNCHANGED <<loop, script, pos, dec, files, writes, failAt, orchVars>>

\* lines 312-336 (select_inbox) and 68-104 (get_email_count)
SelectRead ==
    /\ ReadLoop("select_read", S_A002, sess.caller = "count",
                IF sess.caller = "count" THEN "logout_write" ELSE "fetch_write",
                "ImapError")
    /\ UNCHANGED <<loop, script, stream, dec, files, writes, failAt, orchVars>>

\* lines 198-206: the FETCH command; process_batch_async starts
FetchWrite ==
    /\ \E items \in SessionScripts :
         /\ Command("fetch_write", "FETCH", "decoding", NoRet, Render(items))
         /\ script' = IF sess'.pc = "decoding" THEN items ELSE script
    /\ dec' = IF sess'.pc = "decoding" THEN DecoderStart ELSE dec
    /\ UNCHANGED <<loop, pos, files, writes, failAt, orchVars>>

\* line 208: process_batch_async(...).await?
DecoderReturns ==
    /\ sess.pc = "decoding"
    /\ dec.exit # "running"
    /\ sess' = IF dec.ret.tag = "Ok"
               THEN [sess EXCEPT !.pc = "logout_write", !.emails_saved = dec.ret.value]
               ELSE [sess EXCEPT !.pc = "done", !.result = dec.ret]
    /\ UNCHANGED <<loop, decoderVars, orchVars>>

\* lines 211-221 and 107-117: LOGOUT, then Ok(emails_saved) or Ok(email_count)
LogoutWrite ==
    /\ Command("logout_write", "LOGOUT", "done",
               Ok(IF sess.caller = "count" THEN sess.email_count ELSE sess.emails_saved),
               <<>>)
    /\ UNCHANGED <<loop, script, pos, dec, files, writes, failAt, orchVars>>

SessionNext ==
    \/ Connect \/ Greeting \/ LoginWrite \/ LoginRead \/ SelectWrite \/ SelectRead
    \/ FetchWrite \/ Read \/ ReadEof \/ ReadErr \/ DecoderReturns \/ LogoutWrite

SessionSpec == SessionInit /\ [][SessionNext]_vars

(***************************************************************************)
(* Properties of a connection                                              *)
(***************************************************************************)
\* the first CRLF-terminated line of `bytes` that starts with `tag` and the
\* offset of its last byte; an empty line and 0 when there is none
RECURSIVE FirstTagged(_, _, _)
FirstTagged(bytes, tag, offset) ==
    LET e == Find(bytes, S_CRLF)
    IN  IF e = -1 THEN [line |-> <<>>, end |-> 0]
        ELSE IF StartsWith(SubSeq(bytes, 1, e + 2), tag)
        THEN [line |-> SubSeq(bytes, 1, e + 2), end |-> offset + e + 2]
        ELSE FirstTagged(SubSeq(bytes, e + 3, Len(bytes)), tag, offset + e + 2)

\* the server's first line, after LOGIN was written, that starts with A001
LoginLine == FirstTagged(SubSeq(stream, sess.login_from + 1, Len(stream)), S_A001, sess.login_from)

LoginRejected ==
    /\ Len(sess.sent) >= 1
    /\ LoginLine.line # <<>>
    /\ ~Contains(LoginLine.line, S_OK)

\* C9: if the first line that starts with the login tag does not contain OK,
\* authenticate's result, once it has read that line, is AuthenticationError,
\* it is the caller's result, and the caller sends no SELECT, FETCH or LOGOUT
\* on the connection: LOGIN stays the only command sent.
C9_LoginRejected ==
    LoginRejected =>
        /\ sess.sent = <<"LOGIN">>
        /\ pos >= LoginLine.end =>
             /\ sess.pc = "done"
             /\ sess.result = Err("AuthenticationError", <<>>)

\* C9's case: fetch_email_batch's login was rejected after an untagged line
\* that contains OK
C9_Witness ==
    /\ LoginRejected
    /\ sess.caller = "batch"
    /\ sess.pc = "done"
    /\ sess.result = Err("AuthenticationError", <<>>)
    /\ Contains(SubSeq(stream, sess.login_from + 1, LoginLine.end), <<"*", " ", "O", "K">>)

\* the decoder is in ReadingLine state
ReadingLine == Decoding /\ ~dec.reading_email_body /\ ~dec.expecting_closing_paren

\* a complete line that starts with the FETCH tag and contains BAD or NO
IsFailureLine(buf) ==
    /\ EndsWithCRLF(buf)
    /\ StartsWith(Trim(FromUtf8Lossy(buf)), S_A003)
    /\ Contains(Trim(FromUtf8Lossy(buf)), S_BAD) \/ Contains(Trim(FromUtf8Lossy(buf)), S_NO)

\* the line in the decoder's buffer once the next byte of the stream is read
NextLine == Trim(FromUtf8Lossy(Append(dec.response_buffer, stream[pos + 1])))

\* the read of one byte that completes a line starting with the FETCH tag and
\* containing BAD or NO
ReadsFailureLine ==
    /\ sess.pc = "decoding"
    /\ ReadingLine
    /\ pos' = pos + 1
    /\ IsFailureLine(Append(dec.response_buffer, stream[pos + 1]))

\* C10: after a successful select, whenever the decoder in ReadingLine state
\* reads a line that starts with the FETCH tag and contains BAD or NO,
\* process_batch_async returns ImapError carrying the line, and that error,
\* never a saved count, is the Worker's result.
C10_TaggedFailure ==
    /\ [][ReadsFailureLine => dec'.ret = Err("ImapError", NextLine)]_vars
    /\ [](sess.pc = "done" /\ dec.exit = "failed" => sess.result = dec.ret)

\* the same for the failure lines that contain neither OK nor FETCH with a brace
C10_PlainFailure ==
    /\ [][(ReadsFailureLine /\ ~Contains(NextLine, S_OK) /\ ~IsFetchLine(NextLine))
              => dec'.ret = Err("ImapError", NextLine)]_vars
    /\ [](sess.pc = "done" /\ dec.exit = "failed" => sess.result = dec.ret)

\* C13: once the decoder has returned a saved count c, fetch_email_batch's
\* result is Ok(c) whether the write and flush of LOGOUT succeed or fail.
C13_LogoutBestEffort ==
    (sess.caller = "batch" /\ sess.pc = "done" /\ dec.ret.tag = "Ok")
        => sess.result = dec.ret

\* the same when the write and flush of LOGOUT succeeded
C13_LogoutWritten ==
    (/\ sess.caller = "batch" /\ sess.pc = "done" /\ dec.ret.tag = "Ok"
     /\ Len(sess.sent) = 4)
        => sess.result = dec.ret

\* the order of the commands on a Worker's connection
CommandOrder == <<"LOGIN", "SELECT", "FETCH", "LOGOUT">>

\* this step writes the command `name`
Writes(name) ==
    /\ Len(sess'.sent) = Len(sess.sent) + 1
    /\ sess'.sent[Len(sess'.sent)] = name

\* the bytes read since offset `from` end with the first line that starts
\* with `tag`, and it contains OK
SuccessLineRead(from, tag) ==
    LET t == FirstTagged(SubSeq(stream, from + 1, pos), tag, from)
    IN  t.line # <<>> /\ Contains(t.line, S_OK) /\ t.end = pos

\* C17: on a Worker's connection the commands are written in the order LOGIN,
\* SELECT, FETCH, LOGOUT: LOGIN after the greeting read, SELECT after the
\* login's tagged success line was read, FETCH after the select's, LOGOUT
\* after the decoder has returned; an error at any step is the Worker's
\* result and no command is written after it.
C17_CommandOrder ==
    /\ [][sess.caller = "batch" =>
            /\ sess'.sent # sess.sent =>
                 /\ sess.result = NoRet
                 /\ sess'.sent = SubSeq(CommandOrder, 1, Len(sess.sent) + 1)
            /\ Writes("LOGIN") => sess.pc = "login_write"
            /\ Writes("SELECT") => SuccessLineRead(sess.login_from, S_A001)
            /\ Writes("FETCH") => SuccessLineRead(sess.scan_from, S_A002)
            /\ Writes("LOGOUT") => dec.exit \notin {"off", "running"} /\ dec.ret.tag = "Ok"
            /\ sess.result.tag = "Err" => sess' = sess]_vars
    /\ [](sess.caller = "batch" /\ sess.pc = "done" /\ sess.sent # CommandOrder
            => sess.result.tag = "Err")

\* C17's case: a Worker has written all four commands and returned its count
C17_Witness ==
    /\ sess.caller = "batch"
    /\ sess.pc = "done"
    /\ sess.sent = CommandOrder
    /\ sess.result = Ok(1)


\* LOGOUT was written, or its write_all or flush failed
LogoutAttempted ==
    \/ sess.sent = CommandOrder
    \/ /\ sess.sent = SubSeq(CommandOrder, 1, 3)
       /\ dec.ret.tag = "Ok"
       /\ sess.result = Err("ConnectionError", <<>>)

\* C21: after FETCH was sent, fetch_email_batch writes LOGOUT before it
\* returns, when the decoder reports completion and also when it reports
\* failure (tagged failure line, read error or file-write error).
C21_LogoutAlways ==
    (/\ sess.caller = "batch" /\ sess.pc = "done"
     /\ dec.exit \notin {"off", "running"})
        => LogoutAttempted

\* the same when the decoder returned a saved count
C21_LogoutAfterCompletion ==
    (/\ sess.caller = "batch" /\ sess.pc = "done"
     /\ dec.exit \notin {"off", "running"} /\ dec.ret.tag = "Ok")
        => LogoutAttempted


\* the server's first line, after SELECT was written, that starts with A002
SelectLine == FirstTagged(SubSeq(stream, sess.scan_from + 1, Len(stream)), S_A002, sess.scan_from)

\* the count a line announces: its second word, when the line contains
\* EXISTS and the word is an unsigned integer; -1 otherwise
Announced(line) ==
    LET parts == SplitWhitespace(FromUtf8Lossy(line))
    IN  IF Contains(line, S_EXISTS) /\ Len(parts) >= 2 THEN ParseUnsigned(parts[2]) ELSE -1

\* the count of the last CRLF-terminated line of `bytes` that announces one,
\* 0 when no line does
LastAnnounced(bytes) ==
    LET ends == {e \in 2..Len(bytes) : bytes[e - 1] = CR /\ bytes[e] = LF}
        counts == {e \in ends :
                     LET before == {d \in ends : d < e}
                         from == IF before = {} THEN 1 ELSE SetMax(before) + 1
                     IN  Announced(SubSeq(bytes, from, e)) # -1}
    IN  IF counts = {} THEN 0
        ELSE LET e == SetMax(counts)
                 before == {d \in ends : d < e}
                 from == IF before = {} THEN 1 ELSE SetMax(before) + 1
             IN  Announced(SubSeq(bytes, from, e))

\* get_email_count has read the answer to SELECT up to its tagged line
SelectAnswered ==
    /\ sess.caller = "count"
    /\ Len(sess.sent) >= 2
    /\ SelectLine.line # <<>>
    /\ pos >= SelectLine.end

\* the count get_email_count should return
SelectCount == LastAnnounced(SubSeq(stream, sess.scan_from + 1, SelectLine.end))

\* C22: get_email_count, for response lines that end with the first line
\* starting with A002: if that line contains OK the result is Ok(count),
\* count being the integer of the last line that contained EXISTS and parsed
\* (0 if none), lines with EXISTS that do not parse change nothing and fail
\* nothing; if the A002 line lacks OK the result is ImapError.
C22_CountResult ==
    SelectAnswered =>
        IF Contains(SelectLine.line, S_OK)
        THEN \/ sess.pc = "logout_write" /\ sess.email_count = SelectCount
             \/ sess.pc = "done" /\ sess.result = Ok(SelectCount)
        ELSE sess.pc = "done" /\ sess.result = Err("ImapError", <<>>)

\* the same, but for a failed write or flush of LOGOUT, which makes the
\* result ConnectionError
C22_CountUnlessLogoutFails ==
    SelectAnswered =>
        IF Contains(SelectLine.line, S_OK)
        THEN \/ sess.pc = "logout_write" /\ sess.email_count = SelectCount
             \/ sess.pc = "done" /\ sess.result = Ok(SelectCount)
             \/ /\ sess.pc = "done" /\ sess.sent = <<"LOGIN", "SELECT">>
                /\ sess.result = Err("ConnectionError", <<>>)
        ELSE sess.pc = "done" /\ sess.result = Err("ImapError", <<>>)


(***************************************************************************)
(* Properties of the decoder                                               *)
(***************************************************************************)
\* k >= 1 messages, each announcing the size of its body, then "A003 OK";
\* minSize is the smallest literal allowed
WellFormed(items, minSize) ==
    /\ Len(items) >= 2
    /\ items[Len(items)] = L_OK
    /\ \A i \in 1..(Len(items) - 1) :
         /\ items[i].kind = "msg"
         /\ items[i].size = Len(items[i].body)
         /\ items[i].size >= minSize

\* one write per message, in order, of exactly the announced bytes
ExpectedWrites(items) ==
    [i \in 1..(Len(items) - 1) |->
        [name |-> FileName(dir_path, items[i].id), data |-> items[i].body]]

\* the stream was consumed, every write accepted and no read failed
FullyFed == pos = Len(stream) /\ failAt = 0 /\ dec.exit # "read_error"

Decoded(items) ==
    /\ dec.ret = Ok(Len(items) - 1)
    /\ writes = ExpectedWrites(items)
    /\ DOMAIN files = {ExpectedWrites(items)[i].name : i \in 1..(Len(items) - 1)}
    /\ \A i \in 1..(Len(items) - 1) :
         (\A j \in (i + 1)..(Len(items) - 1) : items[j].id # items[i].id)
            => files[ExpectedWrites(items)[i].name] = items[i].body

\* C4: a stream of k >= 1 FETCH lines announcing ids and literal lengths
\* n_i >= 1, each followed by exactly n_i bytes and the closing delimiter, and
\* then a successful tagged line: one file is written per message, holding
\* exactly its bytes in order, and the saved count returned is k.
C4_RoundTrip ==
    (WellFormed(script, 1) /\ FullyFed) => Decoded(script)

\* C4's case: two messages decoded, one of them with protocol text in its body
C4_Witness ==
    /\ WellFormed(script, 1) /\ FullyFed
    /\ Len(script) = 3
    /\ \E i \in 1..2 : Contains(script[i].body, L_OK.text \o S_CRLF)
    /\ dec.exit = "completed"
    /\ Len(writes) = 2

\* C5: a FETCH line announcing a literal of length 0 is complete at once: the
\* decoder never waits for a body byte of it, saves a zero-byte file for its
\* id, and goes on to decode the messages and the tagged line that follow.
C5_ZeroLiteral ==
    /\ dec.reading_email_body => dec.email_body_size >= 1
    /\ \A i \in 1..Len(writes) :
         writes[i].name = FileName(dir_path, 123456) => writes[i].data = <<>>
    /\ (WellFormed(script, 0) /\ FullyFed) => Decoded(script)

StartMachine == [dec |-> DecoderStart, files |-> <<>>, writes |-> <<>>]

\* the decoder fed the same bytes one byte per read
RECURSIVE OneByteReads(_, _)
OneByteReads(m, s) ==
    IF s = <<>> \/ m.dec.exit # "running" THEN m
    ELSE OneByteReads(ProcessChunk(m, <<Head(s)>>), Tail(s))

\* C6: however the bytes read so far were split into reads, the decoder is in
\* the state, has issued the file writes and has returned the result that
\* one-byte reads of the same bytes lead to (so two splittings agree).
C6_ChunkIndependent ==
    LET ref == OneByteReads(StartMachine, SubSeq(stream, 1, pos))
    IN  CASE dec.exit = "read_error" -> TRUE
          [] dec.exit = "eof" ->
                /\ ref.dec.exit = "running"
                /\ dec.ret = Ok(ref.dec.emails_saved)
                /\ writes = ref.writes /\ files = ref.files
          [] OTHER -> Machine = ref

\* C6's case: a read ended between the CR and the LF of the second FETCH line
C6_Witness ==
    /\ Decoding
    /\ dec.emails_saved >= 1
    /\ dec.response_buffer # <<>>
    /\ dec.response_buffer[Len(dec.response_buffer)] = CR
    /\ Contains(dec.response_buffer, S_FETCH)

\* C14: when end-of-input occurs before the tagged completion line of the
\* FETCH command, the decoder does not report a successful saved count.
C14_EofBeforeCompletion ==
    dec.exit = "eof" => dec.ret.tag # "Ok"


\* the read of one byte that completes a line with FETCH and a brace
ReadsFetchLine ==
    /\ ReadingLine
    /\ pos' = pos + 1
    /\ EndsWithCRLF(Append(dec.response_buffer, stream[pos + 1]))
    /\ IsFetchLine(NextLine)

\* the line holds a number between "* " and " FETCH"
IdFound(line_str) ==
    LET a == Find(line_str, S_STAR_SP)
        b == Find(line_str, S_SP_FETCH)
    IN  /\ a # -1 /\ b # -1 /\ a + 2 <= b
        /\ ParseUnsigned(SubSeq(line_str, a + 3, b)) # -1

\* the line holds a number between its first "{" and its first "}"
SizeFound(line_str) ==
    LET a == Find(line_str, S_LBRACE)
        b == Find(line_str, S_RBRACE)
    IN  /\ a # -1 /\ b # -1 /\ a + 1 <= b
        /\ ParseUnsigned(SubSeq(line_str, a + 2, b)) # -1

\* id, length and state are as before the line, and nothing was written
LineIgnored ==
    /\ dec'.current_email_id = dec.current_email_id
    /\ dec'.email_body_size = dec.email_body_size
    /\ ~dec'.reading_email_body
    /\ writes' = writes

\* C18: when the decoder reads a line with FETCH and a brace and the
\* extraction of the id or of the length fails, it keeps the previous id and
\* length, stays in ReadingLine and writes no file for the line: it never
\* starts reading a body with an id that was not extracted from that line.
C18_FailedExtraction ==
    [][(ReadsFetchLine /\ ~(IdFound(NextLine) /\ SizeFound(NextLine))) => LineIgnored]_vars

\* the same when both extractions fail
C18_BothFail ==
    [][(ReadsFetchLine /\ ~IdFound(NextLine) /\ ~SizeFound(NextLine)) => LineIgnored]_vars


\* the read of one byte while the decoder is reading a body
ReadsBodyByte == Decoding /\ dec.reading_email_body /\ pos' = pos + 1

\* the body with the byte that is read next
NextBody == Append(dec.current_email_data, stream[pos + 1])

\* C19: while the decoder reads a literal no byte is taken as protocol
\* syntax: CR LF, ")", FETCH lines and tagged lines inside the body are only
\* appended to the message, and the decoder neither returns completion or
\* failure nor starts another message before the declared number of bytes
\* has been consumed; with the byte that completes them the message is saved.
C19_LiteralOpaque ==
    /\ [][ReadsBodyByte =>
            /\ dec'.response_buffer = dec.response_buffer
            /\ dec'.current_email_id = dec.current_email_id
            /\ dec'.email_body_size = dec.email_body_size
            /\ dec'.exit \in {"running", "file_error"}
            /\ IF dec.body_bytes_read + 1 < dec.email_body_size
               THEN /\ dec'.reading_email_body
                    /\ dec'.current_email_data = NextBody
                    /\ dec'.body_bytes_read = dec.body_bytes_read + 1
                    /\ dec'.emails_saved = dec.emails_saved
                    /\ writes' = writes
               ELSE dec'.exit = "running" =>
                    /\ ~dec'.reading_email_body /\ dec'.expecting_closing_paren
                    /\ dec'.emails_saved = dec.emails_saved + 1
                    /\ writes' = Append(writes,
                          [name |-> FileName(dir_path, dec.current_email_id),
                           data |-> NextBody])]_vars
    /\ []((Decoding /\ dec.reading_email_body /\ dec.email_body_size >= 1)
             => dec.body_bytes_read < dec.email_body_size)

\* C19's case: a body holding a closing parenthesis, CR LF and a tagged
\* completion line was read to its end and saved, and the decoder goes on
C19_Witness ==
    /\ Decoding
    /\ \E i \in DOMAIN writes :
          Contains(writes[i].data, <<")", CR, LF>> \o L_OK.text \o S_CRLF)

(***************************************************************************)
(* RerunSpec: process_batch_async run again on the same answer, with the   *)
(* destination holding what the first run left in it.                      *)
(***************************************************************************)
\* the first run, on an empty destination
FirstRun(items) == ProcessChunk(StartMachine, Render(items))

\* answers with several messages, with one id announced twice, without a
\* completion line and with a failure line
RerunScripts ==
    MultiMsgScripts \cup
    { <<Msg(FirstId, <<"h", "i">>), Msg(FirstId, <<"x">>), L_OK>>,
      <<Msg(FirstId, <<"h", "i">>), L_UNTAGGED, Msg(123456, <<"x">>)>>,
      <<Msg(FirstId, <<"h", "i">>), L_NO>> }

\* the destination is empty and the server's answer fixed
RerunInit ==
    /\ script \in RerunScripts
    /\ stream = Render(script)
    /\ pos = 0
    /\ dec = DecoderOff
    /\ failAt \in 0..MaxFailAt
    /\ files = <<>>
    /\ writes = <<>>
    /\ LoopIdle /\ SessIdle /\ OrchIdle

\* the first run has ended and the second one begins, on the files it left
Rerun ==
    /\ dec = DecoderOff
    /\ dec' = DecoderStart
    /\ files' = FirstRun(script).files
    /\ UNCHANGED <<loop, script, stream, pos, writes, failAt, sess, orchVars>>

RerunNext == Rerun \/ DecoderNext

RerunSpec == RerunInit /\ [][RerunNext]_vars

\* the second run read the whole answer, or returned on it
RerunOver == dec.exit \in {"completed", "failed", "file_error", "panic", "eof"}

\* C16: a second run of the decoder over the same stream, on the destination
\* the first run left, ends with exactly the same file names and the same
\* content per file: every file is overwritten with identical content and no
\* other file appears.
C16_RerunIdempotent ==
    dec # DecoderOff =>
        LET first == FirstRun(script)
        IN  /\ DOMAIN files = DOMAIN first.files
            /\ RerunOver => files = first.files
            /\ \A i \in DOMAIN writes :
                  /\ writes[i].name \in DOMAIN first.files
                  /\ writes[i] = first.writes[i]

\* C16's case: the second run has overwritten two files and returned
C16_Witness ==
    /\ dec.exit = "completed"
    /\ Len(writes) = 2
    /\ Cardinality(DOMAIN files) = 2
    /\ \A i \in DOMAIN writes : files[writes[i].name] = writes[i].data


(***************************************************************************)
(* RangeSpec: the loop's arithmetic alone (the tasks it spawns are in      *)
(* Spec).  The total is any u32 the count query can return, so it is drawn *)
(* from the small totals and from the totals next to u32::MAX; for those   *)
(* the loop is entered at one of its last iterations, in the state the     *)
(* earlier iterations (none of which overflows) leave behind.              *)
(***************************************************************************)
MaxRangeCount == 45
MaxTopGap == 12
MaxTail == 3

RangeCounts ==
    {U32Of(n) : n \in 1..MaxRangeCount} \cup {U32Sub(U32Max, j) : j \in 0..MaxTopGap}

\* the iterator values within MaxTail iterations of the end of 1..=email_count
TailStarts(email_count) ==
    {s \in {U32Sub(email_count, j) : j \in 0..(MaxTail * batch_size)} :
        /\ U32Le(s, email_count)
        /\ U32Le(U32Of(1), s)
        /\ U32Mod(s, batch_size) = 1}

\* where the loop is entered: at its first iteration for a small total, at one
\* of its last for a total next to u32::MAX
EntryStarts(email_count) ==
    IF U32Le(email_count, U32Of(MaxRangeCount)) THEN {U32Of(1)}
    ELSE TailStarts(email_count)

\* the loop's state when the iterator is about to yield s
LoopAt(email_count, s) ==
    [ email_count |-> email_count,
      next      |-> s,
      count     |-> U32Div(s, batch_size),      \* ranges generated so far
      start     |-> IF s = U32Of(1) THEN None ELSE U32Sub(s, batch_size),
      end       |-> IF s = U32Of(1) THEN None ELSE U32Sub(s, 1),
      prevEnd   |-> IF s = U32Of(1) THEN U32Of(0)
                    ELSE IF s = U32Of(1 + batch_size) THEN U32Of(0)
                    ELSE U32Sub(s, 1 + batch_size),
      size      |-> IF s = U32Of(1) THEN 0 ELSE batch_size,
      sum       |-> U32Sub(s, 1),               \* sum of their sizes
      pc        |-> "launching" ]

RangeInit ==
    /\ \E email_count \in RangeCounts :
         \E s \in EntryStarts(email_count) :
            loop = LoopAt(email_count, s)
    /\ DecoderIdle /\ SessIdle /\ OrchIdle

\* one pass of the loop body with `end` as computed
Generated(end) ==
    LET start == loop.next
        size == IF U32Gap(start, end, batch_size - 1) = -1 THEN -1
                ELSE U32Gap(start, end, batch_size - 1) + 1
        nxt == StepBy(start, loop.email_count)
    IN  [ loop EXCEPT
            !.next = nxt,
            !.count = @ + 1,
            !.start = start,
            !.end = end,
            !.prevEnd = IF loop.end = None THEN U32Of(0) ELSE loop.end,
            !.size = size,
            !.sum = IF size = -1 THEN @ ELSE U32Add(@, size),
            !.pc = IF nxt = None THEN "done" ELSE "launching" ]

\* an iteration whose addition stays inside u32
Iterate ==
    /\ loop.pc = "launching"
    /\ ~RangeEndOverflows(loop.next)
    /\ loop' = Generated(RangeEnd(loop.next, loop.email_count))
    /\ UNCHANGED <<decoderVars, sess, orchVars>>

\* start + batch_size - 1 overflows, overflow checks off (release): it wraps
IterateWrapped ==
    /\ loop.pc = "launching"
    /\ RangeEndOverflows(loop.next)
    /\ loop' = Generated(RangeEnd(loop.next, loop.email_count))
    /\ UNCHANGED <<decoderVars, sess, orchVars>>

\* start + batch_size - 1 overflows, overflow checks on (debug): it panics
IteratePanic ==
    /\ loop.pc = "launching"
    /\ RangeEndOverflows(loop.next)
    /\ loop' = [loop EXCEPT !.pc = "panicked"]
    /\ UNCHANGED <<decoderVars, sess, orchVars>>

RangeNext == Iterate \/ IterateWrapped \/ IteratePanic

RangeSpec == RangeInit /\ [][RangeNext]_vars

\* ceil(email_count / batch_size)
CeilBatches(email_count) ==
    U32Div(email_count, batch_size)
        + (IF U32Mod(email_count, batch_size) = 0 THEN 0 ELSE 1)

\* C2: for every total N >= 1 the generated ranges are ascending and contiguous
\* from 1 (each start = previous end + 1), each of size 1..batch_size, and when
\* the loop is over the last end is N, there are ceil(N / batch_size) ranges,
\* their sizes sum to N and the last has N mod batch_size (or batch_size) ids.
C2_RangesPartition ==
    /\ loop.start # None =>
        /\ loop.start = U32Add(loop.prevEnd, 1)
        /\ U32Le(loop.start, loop.end)
        /\ loop.size \in 1..batch_size
    /\ loop.pc # "launching" =>
        /\ loop.start # None
        /\ loop.end = loop.email_count
        /\ loop.count = CeilBatches(loop.email_count)
        /\ loop.sum = loop.email_count
        /\ loop.size = (IF U32Mod(loop.email_count, batch_size) = 0 THEN batch_size
                        ELSE U32Mod(loop.email_count, batch_size))

\* the same, for the totals whose last range ends below u32::MAX - batch_size
C2_SmallTotals ==
    U32Le(loop.email_count, U32Sub(U32Max, batch_size)) => C2_RangesPartition

(***************************************************************************)
(* fetch_emails_concurrently: the launch loop spawns one Worker task per   *)
(* range, a task takes a semaphore permit before it calls                  *)
(* fetch_email_batch, and the collect loop awaits the handles in launch    *)
(* order.  A Worker's steps are fetch_email_batch's calls, each of which   *)
(* succeeds or fails as the connection decides.                            *)
(***************************************************************************)
MaxEmailCount == 21
MaxPermits == 2
MaxSaved == 1

MaxWorkers == CeilBatches(U32Of(MaxEmailCount))

\* fetch_email_batch's calls in order, create_tls_connection being the TCP
\* connect and the TLS handshake
Steps ==
    << "connect", "tls", "authenticate", "select_inbox", "fetch_write",
       "process_batch_async", "logout_write" >>

StepIndex(step) == CHOOSE n \in DOMAIN Steps : Steps[n] = step

\* the errors a call returns
StepErrors(step) ==
    CASE step = "connect" -> {"ConnectionError"}
      [] step = "tls" -> {"TlsError"}
      [] step = "authenticate" -> {"ConnectionError", "AuthenticationError"}
      [] step = "select_inbox" -> {"ConnectionError", "ImapError"}
      [] step = "fetch_write" -> {"ConnectionError"}
      [] step = "process_batch_async" -> {"ConnectionError", "ImapError", "FileError"}
      [] step = "logout_write" -> {"ConnectionError"}

\* a spawned task, not polled yet
TaskStart(start, end) ==
    [ start |-> start, end |-> end, pc |-> "waiting", permit |-> FALSE,
      conn |-> FALSE, emails_saved |-> 0, outcome |-> NoRet ]

\* Semaphore::acquire completes when a permit is available
CanAcquire_Always(available) == TRUE

CanAcquire(available) == available > 0

\* the drop of _permit gives the permit back
DropPermit_Leak(available) == available

DropPermit(available) == available + 1

\* mutant: the count of the last Worker collected replaces the total
OnWorkerOk_Overwrite(o, count) == [o EXCEPT !.total_fetched = U32Of(count)]

\* Ok(Ok(count)) => total_fetched += count
OnWorkerOk(o, count) == [o EXCEPT !.total_fetched = U32Add(@, count)]

\* Ok(Err(_)) => errors += 1
OnWorkerError_Abort(o) == [o EXCEPT !.errors = @ + 1, !.pc = "done", !.result = Ok(<<>>)]

OnWorkerError(o) == [o EXCEPT !.errors = @ + 1]

\* Err(e) => errors += 1, the task panicked
OnJoinError_Ignored(o) == o

OnJoinError(o) == [o EXCEPT !.errors = @ + 1]

Init ==
    /\ \E email_count \in 1..MaxEmailCount, max_concurrent \in 1..MaxPermits :
         /\ orch = [ pc |-> "launching",
                     email_count |-> U32Of(email_count),
                     max_concurrent |-> max_concurrent,
                     start |-> U32Of(1),
                     collected |-> 0,
                     total_fetched |-> U32Of(0),
                     errors |-> 0,
                     result |-> NoRet ]
         /\ permits = max_concurrent
    /\ task = <<>>
    /\ DecoderIdle /\ SessIdle /\ LoopIdle

\* one pass of the launch loop: spawn, push the handle, sleep
Launch ==
    /\ orch.pc = "launching"
    /\ ~RangeEndOverflows(orch.start)
    /\ task' = Append(task, TaskStart(orch.start, RangeEnd(orch.start, orch.email_count)))
    /\ orch' = IF StepBy(orch.start, orch.email_count) = None
               THEN [orch EXCEPT !.pc = "collecting"]
               ELSE [orch EXCEPT !.start = StepBy(orch.start, orch.email_count)]
    /\ UNCHANGED <<loop, decoderVars, sess, permits>>

\* let _permit = semaphore.acquire().await.unwrap()
Acquire(i) ==
    /\ i \in DOMAIN task
    /\ task[i].pc = "waiting"
    /\ CanAcquire(permits)
    /\ permits' = permits - 1
    /\ task' = [task EXCEPT ![i].pc = Steps[1], ![i].permit = TRUE]
    /\ UNCHANGED <<loop, decoderVars, sess, orch>>

\* mutant: after a failed TLS handshake the Worker connects again
Returns_Retry(t, outcome) ==
    IF t.pc = "tls" /\ outcome.tag = "Err"
    THEN [t EXCEPT !.pc = "connect", !.conn = FALSE]
    ELSE [t EXCEPT !.pc = "returned", !.conn = FALSE, !.outcome = outcome]

\* fetch_email_batch returns: its stream is dropped
Returns(t, outcome) == [t EXCEPT !.pc = "returned", !.conn = FALSE, !.outcome = outcome]

\* the call succeeds
StepOk(t, emails_saved) ==
    CASE t.pc = "connect" -> [t EXCEPT !.pc = "tls", !.conn = TRUE]
      [] t.pc = "process_batch_async" ->
            [t EXCEPT !.pc = "logout_write", !.emails_saved = emails_saved]
      [] t.pc = "logout_write" -> Returns(t, Ok(t.emails_saved))
      [] OTHER -> [t EXCEPT !.pc = Steps[StepIndex(t.pc) + 1]]

\* one call of fetch_email_batch: it succeeds, fails with `?`, or panics
Step(i) ==
    /\ i \in DOMAIN task
    /\ task[i].pc \in {Steps[n] : n \in DOMAIN Steps}
    /\ \/ \E emails_saved \in
               (IF task[i].pc = "process_batch_async" THEN 0..MaxSaved ELSE {0}) :
             task' = [task EXCEPT ![i] = StepOk(@, emails_saved)]
       \/ \E kind \in StepErrors(task[i].pc) :
             task' = [task EXCEPT ![i] = Returns(@, Err(kind, <<>>))]
       \/ /\ task[i].pc = "process_batch_async"
          /\ task' = [task EXCEPT ![i] = Returns(@, Panicked)]
    /\ UNCHANGED <<loop, decoderVars, sess, orch, permits>>

\* the task ends, by return or by unwinding: _permit is dropped
End(i) ==
    /\ i \in DOMAIN task
    /\ task[i].pc = "returned"
    /\ task' = [task EXCEPT ![i].pc = "ended", ![i].permit = FALSE]
    /\ permits' = DropPermit(permits)
    /\ UNCHANGED <<loop, decoderVars, sess, orch>>

\* handle.await of the next handle, once its task has ended
Collect ==
    /\ orch.pc = "collecting"
    /\ orch.collected < Len(task)
    /\ LET t == task[orch.collected + 1]
           o == [orch EXCEPT !.collected = @ + 1]
       IN  /\ t.pc = "ended"
           /\ orch' = CASE t.outcome.tag = "Ok" -> OnWorkerOk(o, t.outcome.value)
                        [] t.outcome.tag = "Err" -> OnWorkerError(o)
                        [] t.outcome.tag = "Panic" -> OnJoinError(o)
    /\ UNCHANGED <<loop, decoderVars, sess, task, permits>>

\* the collect loop is over: Ok(())
Finish ==
    /\ orch.pc = "collecting"
    /\ orch.collected = Len(task)
    /\ orch' = [orch EXCEPT !.pc = "done", !.result = Ok(<<>>)]
    /\ UNCHANGED <<loop, decoderVars, sess, task, permits>>

Next ==
    \/ Launch
    \/ \E i \in 1..MaxWorkers : Acquire(i)
    \/ \E i \in 1..MaxWorkers : Step(i)
    \/ \E i \in 1..MaxWorkers : End(i)
    \/ Collect
    \/ Finish

Spec == Init /\ [][Next]_vars

\* the runtime polls every task that can make progress, and every call on a
\* connection completes, with a result or an error
FairSpec ==
    /\ Spec
    /\ WF_vars(Launch)
    /\ WF_vars(Collect)
    /\ WF_vars(Finish)
    /\ \A i \in 1..MaxWorkers :
          WF_vars(Acquire(i)) /\ WF_vars(Step(i)) /\ WF_vars(End(i))

(***************************************************************************)
(* Properties of fetch_emails_concurrently                                 *)
(***************************************************************************)
Workers == DOMAIN task

\* the Workers between opening their connection and returning
Connected == {i \in Workers : task[i].conn}

\* the Worker tasks that have acquired and not yet ended
Running == {i \in Workers : task[i].pc \notin {"waiting", "ended"}}

Failed(i) == i \in Workers /\ task[i].outcome.tag \in {"Err", "Panic"}

Succeeded(i) == i \in Workers /\ task[i].outcome.tag = "Ok"

\* C1: with limit k and any number of ranges, in every reachable state at most
\* k Workers are between opening their connection and returning, and a
\* connection is only ever opened by a Worker that holds a permit.
C1_ConcurrencyBound ==
    /\ [](/\ Cardinality(Connected) <= orch.max_concurrent
          /\ \A i \in Connected : task[i].permit)
    /\ [][\A i \in Workers :
            (~task[i].conn /\ task'[i].conn) => (task[i].permit /\ task'[i].permit)]_vars

\* C1's case: more ranges than permits, every permit's holder connected and a
\* Worker still waiting for a slot
C1_Witness ==
    /\ Len(task) > orch.max_concurrent
    /\ Cardinality(Connected) = orch.max_concurrent
    /\ orch.max_concurrent = MaxPermits
    /\ \E i \in Workers : task[i].pc = "waiting"

RECURSIVE SavedUpTo(_)
SavedUpTo(i) ==
    IF i = 0 THEN 0
    ELSE SavedUpTo(i - 1) + (IF Succeeded(i) THEN task[i].outcome.value ELSE 0)

\* C3: when fetch_emails_concurrently finishes, total_fetched is the sum of
\* the counts of the Workers that succeeded, errors is the number of Workers
\* that failed, a task that could not be joined included, and it returns Ok
\* however many Workers failed.
C3_Summary ==
    orch.pc = "done" =>
        /\ orch.total_fetched = U32Of(SavedUpTo(Len(task)))
        /\ orch.errors = Cardinality({i \in Workers : Failed(i)})
        /\ orch.collected = Len(task)
        /\ \A i \in Workers : task[i].pc = "ended"
        /\ orch.result = Ok(<<>>)

\* C3's case: it finished with a Worker that saved messages, a Worker that
\* returned an error and a Worker that panicked
C3_Witness ==
    /\ orch.pc = "done"
    /\ \E i \in Workers : Succeeded(i) /\ task[i].outcome.value > 0
    /\ \E i \in Workers : task[i].outcome.tag = "Err"
    /\ \E i \in Workers : task[i].outcome = Panicked

\* the Worker ran to its outcome and the collect loop has awaited its handle
Collected(i) == i \in Workers /\ task[i].pc = "ended" /\ orch.collected >= i

\* every range was launched and every Worker's outcome collected
AllCollected ==
    /\ orch.pc = "done"
    /\ Len(task) = CeilBatches(orch.email_count)
    /\ orch.collected = Len(task)

\* C7: when one Worker fails, at any step, every other Worker, in flight or
\* waiting for a slot, still acquires a slot, runs to its own outcome and has
\* it collected.
C7_FailureIsolated ==
    (\E i \in Workers : Failed(i))
        ~> (AllCollected /\ \A j \in Workers : Collected(j))

\* C7's case: with one permit the first Worker failed, and the Worker that
\* waited for its slot then saved messages and was collected
C7_Witness ==
    /\ orch.max_concurrent = 1
    /\ Len(task) >= 2
    /\ Failed(1)
    /\ Succeeded(2) /\ task[2].outcome.value > 0
    /\ AllCollected

\* C8: a task that acquired a permit releases it when it ends, on every path:
\* in every reachable state the permits held are as many as the tasks that
\* have acquired and not yet ended, and once all tasks have ended all
\* max_concurrent permits are available.
C8_PermitsReleased ==
    /\ orch.max_concurrent - permits = Cardinality(Running)
    /\ Running = {i \in Workers : task[i].permit}
    /\ (\A i \in Workers : task[i].pc = "ended") => permits = orch.max_concurrent

\* C8's case: tasks have ended by a successful batch, by an error and by a
\* panic, and every permit is available
C8_Witness ==
    /\ \A i \in Workers : task[i].pc = "ended"
    /\ \E i \in Workers : Succeeded(i)
    /\ \E i \in Workers : task[i].outcome.tag = "Err"
    /\ \E i \in Workers : task[i].outcome = Panicked
    /\ permits = orch.max_concurrent

(***************************************************************************)
(* fetch_all_emails: get_email_count opens a connection of its own to      *)
(* learn the count, and fetch_emails_concurrently is called with it unless *)
(* it is 0.  get_email_count's calls succeed or fail as a Worker's do.     *)
(***************************************************************************)
\* get_email_count's calls in order; select_inbox stands for its own SELECT
\* and the read loop that parses EXISTS
CountSteps == << "connect", "tls", "authenticate", "select_inbox", "logout_write" >>

CountStepIndex(step) == CHOOSE n \in DOMAIN CountSteps : CountSteps[n] = step

\* if email_count == 0 { return Ok(()) } is not taken
HasEmails_Always(email_count) == TRUE

HasEmails(email_count) == email_count # U32Of(0)

\* let email_count = self.get_email_count().await?
OnCountError_Continue(o, kind) ==
    [o EXCEPT !.pc = "counted", !.conn = FALSE, !.count = Err(kind, <<>>),
              !.email_count = U32Of(1)]

OnCountError(o, kind) ==
    [o EXCEPT !.pc = "done", !.conn = FALSE, !.count = Err(kind, <<>>),
              !.result = Err(kind, <<>>)]

RunInit ==
    /\ \E max_concurrent \in 1..MaxPermits :
         orch = [ pc |-> "counting",
                  step |-> CountSteps[1],
                  conn |-> FALSE,
                  count |-> NoRet,
                  email_count |-> U32Of(0),
                  max_concurrent |-> max_concurrent,
                  start |-> U32Of(1),
                  collected |-> 0,
                  total_fetched |-> U32Of(0),
                  errors |-> 0,
                  result |-> NoRet ]
    /\ permits = 0
    /\ task = <<>>
    /\ DecoderIdle /\ SessIdle /\ LoopIdle

\* the call of get_email_count succeeds
CountStepOk(o, email_count) ==
    CASE o.step = "connect" -> [o EXCEPT !.step = "tls", !.conn = TRUE]
      [] o.step = "select_inbox" ->
            [o EXCEPT !.step = "logout_write", !.email_count = U32Of(email_count)]
      [] o.step = "logout_write" ->
            [o EXCEPT !.pc = "counted", !.conn = FALSE, !.count = Ok(o.email_count)]
      [] OTHER -> [o EXCEPT !.step = CountSteps[CountStepIndex(o.step) + 1]]

\* one call of get_email_count: it succeeds or fails with `?`
CountStep ==
    /\ orch.pc = "counting"
    /\ \/ \E email_count \in
               (IF orch.step = "select_inbox" THEN 0..MaxEmailCount ELSE {0}) :
             orch' = CountStepOk(orch, email_count)
       \/ \E kind \in StepErrors(orch.step) :
             orch' = OnCountError(orch, kind)
    /\ UNCHANGED <<loop, decoderVars, sess, task, permits>>

\* lines 33-36: no emails, return Ok(())
NoEmails ==
    /\ orch.pc = "counted"
    /\ ~HasEmails(orch.email_count)
    /\ orch' = [orch EXCEPT !.pc = "done", !.result = Ok(<<>>)]
    /\ UNCHANGED <<loop, decoderVars, sess, task, permits>>

\* line 41: fetch_emails_concurrently(email_count) creates the semaphore
StartFetching ==
    /\ orch.pc = "counted"
    /\ HasEmails(orch.email_count)
    /\ orch' = [orch EXCEPT !.pc = "launching"]
    /\ permits' = orch.max_concurrent
    /\ UNCHANGED <<loop, decoderVars, sess, task>>

RunNext ==
    \/ CountStep
    \/ NoEmails
    \/ StartFetching
    \/ Next

RunSpec == RunInit /\ [][RunNext]_vars

(***************************************************************************)
(* Properties of fetch_all_emails                                          *)
(***************************************************************************)
\* C11: when the total is 0 the run ends with 0 saved and 0 errored, and no
\* Worker is spawned, no permit acquired and no batch connection opened.
C11_EmptyMailbox ==
    (orch.count = Ok(U32Of(0))) =>
        /\ task = <<>>
        /\ permits = 0
        /\ orch.pc \in {"counted", "done"}
        /\ orch.total_fetched = U32Of(0) /\ orch.errors = 0
        /\ orch.pc = "done" => orch.result = Ok(<<>>)

\* C11's case: the count was 0 and fetch_all_emails has returned
C11_Witness ==
    /\ orch.count = Ok(U32Of(0))
    /\ orch.pc = "done"
    /\ orch.result = Ok(<<>>)

\* C12: if get_email_count fails, at any step, fetch_all_emails returns that
\* error, no Worker is spawned and no batch connection opened; batches are
\* attempted only after get_email_count returned a count.
C12_CountFailureIsFatal ==
    /\ orch.count.tag = "Err" =>
         /\ orch.pc = "done"
         /\ orch.result = orch.count
         /\ task = <<>>
         /\ permits = 0
    /\ (task # <<>> \/ orch.pc \in {"launching", "collecting"}) => orch.count.tag = "Ok"

\* C12's case: SELECT was refused after a successful login
C12_Witness ==
    /\ orch.count = Err("ImapError", <<>>)
    /\ orch.pc = "done"
    /\ orch.result = Err("ImapError", <<>>)

(***************************************************************************)
(* FilesSpec: the Workers of one run, each decoding the server's answer to *)
(* its own FETCH start:end.  process_batch_async is given the connection   *)
(* and dir_path only; the server answers with messages of any ids.         *)
(***************************************************************************)
\* the ranges the launch loop generates from `start` on
RECURSIVE RangesFrom(_, _)
RangesFrom(start, email_count) ==
    IF start = None THEN <<>>
    ELSE <<[start |-> start, end |-> RangeEnd(start, email_count)]>>
            \o RangesFrom(StepBy(start, email_count), email_count)

\* a Worker that has written its FETCH command
BatchStart(range) ==
    [ start |-> range.start, end |-> range.end, pc |-> "process_batch_async",
      answered |-> <<>>, writes |-> <<>>, outcome |-> NoRet ]

\* the server's answer to a FETCH: one message per id, then the completion line
Answer(ids) == [i \in 1..Len(ids) |-> Msg(ids[i], <<"h", "i">>)] \o <<L_OK>>

FilesInit ==
    /\ \E email_count \in 1..MaxEmailCount :
         LET ranges == RangesFrom(U32Of(1), U32Of(email_count))
         IN  task = [i \in 1..Len(ranges) |-> BatchStart(ranges[i])]
    /\ orch = [pc |-> "off"] /\ permits = 0
    /\ DecoderIdle /\ SessIdle /\ LoopIdle

\* line 208: process_batch_async decodes the answer and fetch_email_batch
\* goes on with its result
DecodeBatch(i) ==
    /\ i \in DOMAIN task
    /\ task[i].pc = "process_batch_async"
    /\ \E id \in 1..MaxEmailCount :
         LET m == ProcessChunk(StartMachine, Render(Answer(<<id>>)))
         IN  task' = [task EXCEPT ![i].pc = "returned",
                                  ![i].answered = <<id>>,
                                  ![i].writes = m.writes,
                                  ![i].outcome = m.dec.ret]
    /\ UNCHANGED <<loop, decoderVars, sess, orch, permits>>

FilesNext == \E i \in 1..MaxWorkers : DecodeBatch(i)

FilesSpec == FilesInit /\ [][FilesNext]_vars

\* the file names a Worker wrote, and those of the ids of its range
NamesWritten(i) == {task[i].writes[k].name : k \in DOMAIN task[i].writes}

NamesOfRange(i) == {FileName(dir_path, id) : id \in task[i].start[2]..task[i].end[2]}

\* C15: under every server response each Worker writes only files email_<id>
\* with id inside its own range, so the names two Workers write are disjoint.
C15_DisjointFiles ==
    /\ \A i \in DOMAIN task : NamesWritten(i) \subseteq NamesOfRange(i)
    /\ \A i \in DOMAIN task, j \in DOMAIN task :
          i # j => NamesWritten(i) \cap NamesWritten(j) = {}

\* the same when every Worker was answered with ids of its own range
C15_AnswersInRange ==
    (\A i \in DOMAIN task : \A k \in DOMAIN task[i].answered :
         task[i].answered[k] \in task[i].start[2]..task[i].end[2])
        => C15_DisjointFiles

(***************************************************************************)
(* StallSpec: fetch_emails_concurrently with servers that may stop         *)
(* answering.  No read has a timeout: the Worker waits in it for ever,     *)
(* with its connection open and its permit held.                           *)
(***************************************************************************)
\* the calls that read from the connection
ReadingSteps == {"authenticate", "select_inbox", "process_batch_async"}

\* the server sends nothing more and does not close: the read never returns
Stall(i) ==
    /\ i \in DOMAIN task
    /\ task[i].pc \in ReadingSteps
    /\ task' = [task EXCEPT ![i].pc = "stalled"]
    /\ UNCHANGED <<loop, decoderVars, sess, orch, permits>>

StallNext ==
    \/ Next
    \/ \E i \in 1..MaxWorkers : Stall(i)

StallSpec == Init /\ [][StallNext]_vars

\* as FairSpec: every task that can make progress is polled and every call
\* that is not stalled completes
StallFairSpec ==
    /\ StallSpec
    /\ WF_vars(Launch)
    /\ WF_vars(Collect)
    /\ WF_vars(Finish)
    /\ \A i \in 1..MaxWorkers :
          WF_vars(Acquire(i)) /\ WF_vars(Step(i)) /\ WF_vars(End(i))

Stalled == {i \in Workers : task[i].pc = "stalled"}

\* the Worker has completed, or is itself stalled
Settled(i) == i \in Workers /\ task[i].pc \in {"ended", "stalled"}

\* C20: a Worker whose read stalls for ever blocks only itself: for every
\* limit k >= 1 and any number of stalled Workers, every other Worker, those
\* waiting for a slot included, eventually acquires a slot and completes.
C20_StallBlocksOnlyItself ==
    \A i \in 1..MaxWorkers :
        (i \in Workers) ~> Settled(i)

\* the stalled Workers hold every permit and a Worker waits for one
C20_Starved ==
    /\ Cardinality(Stalled) = orch.max_concurrent
    /\ permits = 0
    /\ \E i \in Workers : task[i].pc = "waiting"

\* the Workers that hold a permit are not blocked by a stalled one
C20_HoldersComplete ==
    \A i \in 1..MaxWorkers :
        (i \in Workers /\ task[i].permit) ~> Settled(i)

(***************************************************************************)
(* Properties of the decoder's states                                      *)
(***************************************************************************)
\* a line that starts with the FETCH tag and contains OK, BAD or NO
IsCompletionLine(line_str) ==
    /\ StartsWith(line_str, S_A003)
    /\ Contains(line_str, S_OK) \/ Contains(line_str, S_BAD) \/ Contains(line_str, S_NO)

\* the read of one byte that completes a line which is neither a line with
\* FETCH and a brace nor a completion line
ReadsOtherLine ==
    /\ ReadingLine
    /\ pos' = pos + 1
    /\ EndsWithCRLF(Append(dec.response_buffer, stream[pos + 1]))
    /\ ~IsFetchLine(NextLine)
    /\ ~IsCompletionLine(NextLine)

\* C23: in ReadingLine state a complete line that is neither a FETCH line
\* with a length token nor a line starting with the FETCH tag that contains
\* OK, BAD or NO only clears the line buffer: the state flags, the id, the
\* declared size, the accumulator, the saved count and the files stay as
\* they were, and the decoder keeps reading.
C23_OtherLineFrame ==
    [][ReadsOtherLine =>
          /\ dec' = [dec EXCEPT !.response_buffer = <<>>]
          /\ files' = files
          /\ writes' = writes]_vars

\* C23's case: after a message was saved, the line "A003 x" was read and the
\* decoder is at the start of the next line with id and count as before
C23_Witness ==
    /\ Decoding /\ ReadingLine
    /\ script \in PlainScripts
    /\ pos = Len(RenderMsg(script[1])) + Len(RenderItem(script[2]))
    /\ dec.response_buffer = <<>>
    /\ dec.emails_saved = 1 /\ dec.current_email_id = FirstId

\* the decoder's state, by its two flags
StateOf(d) ==
    IF d.reading_email_body THEN "ReadingLiteral"
    ELSE IF d.expecting_closing_paren THEN "SkippingToDelimiter"
    ELSE "ReadingLine"

\* the byte read completes a line with FETCH and a brace whose length parses
AcceptsFetchLine ==
    /\ EndsWithCRLF(Append(dec.response_buffer, stream[pos + 1]))
    /\ IsFetchLine(NextLine)
    /\ SizeFound(NextLine)

\* the byte read is the last of the body, and the body was written to a file
CompletesBody ==
    /\ dec.body_bytes_read + 1 >= dec.email_body_size
    /\ Len(writes') = Len(writes) + 1
    /\ dec'.emails_saved = dec.emails_saved + 1

\* the read of one byte moves the decoder from state `a` to state `b`
Moves(a, b) ==
    /\ Decoding
    /\ pos' = pos + 1
    /\ StateOf(dec) = a
    /\ StateOf(dec') = b

States == {"ReadingLine", "ReadingLiteral", "SkippingToDelimiter"}

\* C24: reading_email_body and expecting_closing_paren are never both true,
\* and a byte changes the state only from ReadingLine to ReadingLiteral on an
\* accepted FETCH line, from ReadingLiteral to SkippingToDelimiter when the
\* body completes, and from SkippingToDelimiter to ReadingLine on a closing
\* parenthesis.
C24_OneStateActive ==
    /\ [](~(dec.reading_email_body /\ dec.expecting_closing_paren))
    /\ [][\A a, b \in States : (Moves(a, b) /\ a # b) =>
              \/ a = "ReadingLine" /\ b = "ReadingLiteral" /\ AcceptsFetchLine
              \/ a = "ReadingLiteral" /\ b = "SkippingToDelimiter" /\ CompletesBody
              \/ a = "SkippingToDelimiter" /\ b = "ReadingLine" /\ stream[pos + 1] = ")"]_vars

\* C24's case: the decoder went through the three states and is back in
\* ReadingLine behind the closing parenthesis of a saved message
C24_Witness ==
    /\ Decoding
    /\ dec.emails_saved = 1
    /\ StateOf(dec) = "ReadingLine"
    /\ dec.response_buffer = <<>>
    /\ pos > 0 /\ stream[pos] = ")"

\* the accumulator holds the bytes read since the end of the FETCH line
\* that announced the body, and nothing else
AccumulatorIsBody ==
    LET from == pos - dec.body_bytes_read
    IN  /\ Len(dec.current_email_data) = dec.body_bytes_read
        /\ dec.current_email_data = SubSeq(stream, from + 1, pos)
        /\ from >= 2 /\ stream[from - 1] = CR /\ stream[from] = LF

\* the read of one byte that saves a message
SavesOnByte ==
    /\ Decoding
    /\ pos' = pos + 1
    /\ Len(writes') = Len(writes) + 1

\* C25: while process_batch_async runs, between processed bytes
\* current_email_data is empty whenever the decoder is not in ReadingLiteral,
\* and in ReadingLiteral its length is body_bytes_read; a file gets the bytes
\* read since its own FETCH line and no byte of the message before.
C25_Accumulator ==
    /\ [](Decoding =>
             IF dec.reading_email_body THEN AccumulatorIsBody
             ELSE dec.current_email_data = <<>>)
    /\ [][SavesOnByte =>
              writes'[Len(writes')].data =
                  SubSeq(stream, pos + 1 - dec.body_bytes_read, pos + 1)]_vars

\* C25's case: one message is saved and the first byte of the next one is
\* in the accumulator
C25_Witness ==
    /\ Decoding
    /\ dec.reading_email_body
    /\ dec.emails_saved = 1
    /\ dec.body_bytes_read = 1
    /\ dec.current_email_data = <<"h">>

(***************************************************************************)
(* AttemptSpec: a run of fetch_emails_concurrently, or one Worker's        *)
(* connection in detail.  It puts the two levels under one formula: what   *)
(* the orchestrator launches, and what a Worker writes on its connection.  *)
(***************************************************************************)
AttemptInit == Init \/ (SessionInit /\ sess.caller = "batch")

AttemptNext ==
    \/ orch.pc # "off" /\ Next
    \/ sess.pc # "off" /\ SessionNext

AttemptSpec == AttemptInit /\ [][AttemptNext]_vars

\* how far a Worker task has come
TaskRank(pc) ==
    CASE pc = "waiting" -> 0
      [] pc = "returned" -> Len(Steps) + 1
      [] pc = "ended" -> Len(Steps) + 2
      [] OTHER -> StepIndex(pc)

\* fetch_email_batch's awaits on its connection, in order
SessionOrder ==
    << "connect", "greeting", "login_write", "login_read", "select_write",
       "select_read", "fetch_write", "decoding", "logout_write", "done" >>

SessionRank(pc) == CHOOSE n \in DOMAIN SessionOrder : SessionOrder[n] = pc

\* the ranges launched so far are pairwise different, and once the launch
\* loop is over there is one Worker for each range of the mailbox
OneWorkerPerRange ==
    /\ \A i, j \in Workers : i # j => task[i].start # task[j].start
    /\ orch.pc \in {"collecting", "done"} => Len(task) = CeilBatches(orch.email_count)

\* a Worker task keeps its range and only moves forward: no call of
\* fetch_email_batch is made twice, and a Worker that has failed stays failed
TasksMoveForward ==
    \A i \in Workers :
        /\ i \in DOMAIN task'
        /\ task'[i].start = task[i].start /\ task'[i].end = task[i].end
        /\ task'[i].pc = task[i].pc \/ TaskRank(task'[i].pc) > TaskRank(task[i].pc)
        /\ Failed(i) => task'[i].outcome = task[i].outcome

\* on its connection the Worker only moves forward and repeats no command
ConnectionMovesForward ==
    sess.pc # "off" =>
        /\ sess'.pc = sess.pc \/ SessionRank(sess'.pc) > SessionRank(sess.pc)
        /\ \A a, b \in DOMAIN sess'.sent : a # b => sess'.sent[a] # sess'.sent[b]

\* C26: nothing is retried within a run: each range is handed to exactly one
\* Worker, each Worker makes at most one connection attempt and sends each of
\* LOGIN, SELECT and FETCH at most once, and the range of a Worker that
\* failed is not attempted again before fetch_emails_concurrently returns.
C26_NoRetry ==
    /\ [](orch.pc # "off" => OneWorkerPerRange)
    /\ [][TasksMoveForward /\ ConnectionMovesForward]_vars

\* C26's case: the run is over, the first of three Workers failed on its
\* connection attempt, and there are still exactly three Workers
C26_Witness ==
    /\ orch.pc = "done"
    /\ Len(task) = 3
    /\ task[1].outcome = Err("ConnectionError", <<>>)
    /\ Succeeded(2) /\ Succeeded(3)

(***************************************************************************)
(* Properties of a whole run of fetch_emails_concurrently                  *)
(***************************************************************************)
\* fetch_emails_concurrently has returned, every Worker having acquired a
\* permit, run and ended
Returned ==
    /\ orch.pc = "done"
    /\ orch.result = Ok(<<>>)
    /\ Len(task) = CeilBatches(orch.email_count)
    /\ \A i \in Workers : task[i].pc = "ended"

\* C27: with max_concurrent >= 1, fair scheduling and every call of every
\* Worker eventually returning, fetch_emails_concurrently eventually returns:
\* every spawned Worker gets a permit as earlier Workers end, by success or
\* by failure, and awaiting the handles in launch order does not deadlock
\* against the semaphore.
C27_EventuallyReturns == <>Returned

\* C27's case: three Workers shared one permit, the first one failed, and
\* fetch_emails_concurrently has returned
C27_Witness ==
    /\ Returned
    /\ orch.max_concurrent = 1
    /\ Len(task) = 3
    /\ Failed(1)
    /\ permits = 1

\* the Workers among the first n launched that failed
FailedUpTo(n) == {i \in 1..n : Failed(i)}

\* a Worker's outcome, once it has returned, is not changed by anything
OutcomesStable ==
    \A i \in Workers :
        task[i].outcome # NoRet => task'[i].outcome = task[i].outcome

\* C28: total_fetched and errors depend only on each Worker's own outcome,
\* not on the order in which Workers acquire permits or finish: whatever the
\* interleaving, after k handles were awaited the totals are the sum of the
\* counts and the number of failures of the first k Workers launched, whose
\* outcomes never change once set.
C28_TotalsByOutcome ==
    /\ [](/\ orch.collected <= Len(task)
          /\ orch.total_fetched = U32Of(SavedUpTo(orch.collected))
          /\ orch.errors = Cardinality(FailedUpTo(orch.collected)))
    /\ [][OutcomesStable]_vars

\* C28's case: the third Worker has finished before the second one, and
\* only the first Worker's failure is counted so far
C28_Witness ==
    /\ Len(task) = 3
    /\ orch.collected = 1
    /\ Failed(1)
    /\ task[2].pc = "process_batch_async"
    /\ task[3].pc = "ended" /\ Succeeded(3) /\ task[3].outcome.value = 1
    /\ orch.errors = 1 /\ orch.total_fetched = U32Of(0)

====
